---- MODULE Spec2Model ----
(***************************************************************************)
(* A model of the prores-go decoder: the Bitstream reader (bitstream.go),  *)
(* clamp10bit and the AC coefficient decoder (slice decoder), and the      *)
(* picture assembler DecodePicture with its eight-worker pool (picture.go).*)
(*                                                                         *)
(* Each component is a state machine of its own with its own               *)
(* specification (SpecBits, SpecClamp, SpecAC, SpecTiling, SpecFrame,      *)
(* SpecPool, FairPool).  The variables of the components a specification   *)
(* does not run are parked at fixed values.                                *)
(*                                                                         *)
(* TLC's integers are 32 bits wide and overflow is an error, so a 32-bit   *)
(* unsigned value is carried as a pair of 16-bit halves <<hi, lo>> and a   *)
(* 64-bit word as the sequence of its eight bytes, most significant first. *)
(***************************************************************************)
EXTENDS Integers, Sequences, FiniteSets, TLC

VARIABLES
    \* Bitstream (bitstream.go:10-13) and the outcome of the last call on it
    Bytes, Offset, last, written, rt, calls,
    \* clamp10bit: its argument, its result, and whether it has run
    sample, clamped, clampPc,
    \* decodeCoefficients: the arguments and locals of decodeDCCoefficients and
    \* decodeACCoefficients, the coefficients written, the last index into scanOrder
    numberOfBlocks, scanOrder, run, level, pos, coeffs, scanIdx, acPc,
    \* DecodePicture: its inputs (the parsed frame header, the picture header, and
    \* whether the picture's bytes can be read), its locals, the two channels, the
    \* WaitGroup counter, the worker goroutines, and what it returns
    frameHeader, header, stream, height, img, pc, sliceI, x, y, sent,
    jobCh, errCh, wg, worker, result, crashed,
    \* history: how often each slice job was received and decoded, the jobs whose
    \* decode returned an error, and the first error written into errCh
    received, decoded, failed, firstErr,
    \* DecodeSlice: the size of the slice's section reader and the bytes the
    \* stream holds of it, the slice header's first byte and its two data sizes,
    \* len(pixelData), where the call is, and the error it returns
    sliceSize, sliceHave, hdrSizeByte, LumaDataSize, ChromaUDataSize,
    pixelLen, slicePc, sliceErr,
    \* decodeChannel on one SliceDecoder: the buffers in d.coefficientBuffers and
    \* the buffer in use (each as the set of its blocks that may hold values
    \* other than zero from an earlier channel), rect.Dx() and the
    \* two flags of the call, where the call is, and the error it returned
    pool, buffer, rectDx, isSubsampled, isChroma, chPc, chErr,
    \* FrameHeader.Decode: the header size the stream declares, the bytes the
    \* stream holds, the quantization matrix flags byte, where the call is, and
    \* its outcome
    hdrSize, streamLen, matrixFlags, fhPc, fhOut

varsBits == <<Bytes, Offset, last, written, rt, calls>>
varsClamp == <<sample, clamped, clampPc>>
varsAC == <<numberOfBlocks, scanOrder, run, level, pos, coeffs, scanIdx, acPc>>
varsPic == <<frameHeader, header, stream, height, img, pc, sliceI, x, y, sent,
             jobCh, errCh, wg, worker, result, crashed,
             received, decoded, failed, firstErr>>
varsSlice == <<sliceSize, sliceHave, hdrSizeByte, LumaDataSize, ChromaUDataSize,
               pixelLen, slicePc, sliceErr>>
varsScratch == <<pool, buffer, rectDx, isSubsampled, isChroma, chPc, chErr>>
varsFH == <<hdrSize, streamLen, matrixFlags, fhPc, fhOut>>
varsMore == <<varsSlice, varsScratch, varsFH>>

----------------------------------------------------------------------------
(* Bounds of the model *)

\* the test writer puts at most this many (width, value) pairs into a buffer
MaxItems == 2
\* zero bytes appended after the written pairs: none, or this many
MaxTail == 8
\* calls made on one Bitstream in one run
MaxCalls == 3
\* clamp10bit is tried on every sample from -ClampSpan to 1023 + ClampSpan
\* and on the ends of the int32 range
ClampSpan == 64
\* bytes of coefficient data handed to decodeCoefficients
MaxACBytes == 4
\* the frames tiled are up to this many macroblocks wide and high
MaxWidthMB == 15
MaxHeightMB == 9
\* the pictures the worker pool decodes have up to this many slices
MaxSlices == 2
\* a slice handed to DecodeSlice is up to this many bytes long
MaxSliceBytes == 9
\* the data of a channel handed to decodeChannel is up to this many bytes long
MaxChannelBytes == 2
\* the buffers a SliceDecoder's sync.Pool holds on to
MaxPooled == 1

----------------------------------------------------------------------------
(* Bit arithmetic on bytes *)

Pow2(n) == 2 ^ n

\* byte(v << s) for a byte v
ShlByte(v, s) == (v * Pow2(s)) % 256

\* bits.LeadingZeros8
LeadingZeros8(v) ==
    IF v = 0 THEN 8 ELSE CHOOSE k \in 0..7 : v \div Pow2(7 - k) = 1

\* the slice b[pos:] of a Go byte slice (b is 1-indexed here, Go is 0-indexed)
SliceFrom(b, from) == SubSeq(b, from + 1, Len(b))

\* bit p (counted from the start of the buffer, MSB first within a byte)
BitAt(b, p) == (b[(p \div 8) + 1] \div Pow2(7 - (p % 8))) % 2

\* Bitstream.RemainingBits: len(bs.Bytes)<<3 - bs.Offset
RemainingBits(b, off) == Len(b) * 8 - off

\* The 64-bit word ReverseBytes64(*(*uint64)(&Bytes[pos])) << s as its eight
\* bytes, most significant first: the unaligned little-endian load byte-reversed
\* is the eight bytes from Bytes[from] read big-endian; the shift (s < 8) moves each byte's low
\* bits up and pulls in the next byte's high bits, zeros entering at the end.
Word64Shl(b, from, s) ==
    [j \in 1..8 |->
        ShlByte(b[from + j], s)
        + (IF j < 8 THEN b[from + j + 1] \div Pow2(8 - s) ELSE 0)]

\* bits.LeadingZeros64 of a word given as eight bytes
LeadingZeros64(w) ==
    IF \A j \in 1..8 : w[j] = 0 THEN 64
    ELSE LET j == CHOOSE k \in 1..8 : w[k] # 0 /\ \A m \in 1..(k - 1) : w[m] = 0
         IN  8 * (j - 1) + LeadingZeros8(w[j])

----------------------------------------------------------------------------
(* Bitstream reads.  Each returns a record: ok (the bool the method returns),  *)
(* hi,lo (the halves of *dest; a bool dest is lo = 1), off (bs.Offset after     *)
(* the call) and panic (the Go runtime panicked: index or slice out of range). *)

Res(ok, hi, lo, off) == [ok |-> ok, hi |-> hi, lo |-> lo, off |-> off, panic |-> FALSE]
Panicked(off) == [ok |-> FALSE, hi |-> 0, lo |-> 0, off |-> off, panic |-> TRUE]

\* the loop of ReadSmallUnary over buf[1:], with its result
UnaryTail(buf, skipped, off) ==
    IF \E i \in 1..(Len(buf) - 1) : buf[i + 1] # 0
    THEN LET i == CHOOSE k \in 1..(Len(buf) - 1) :
                      buf[k + 1] # 0 /\ \A m \in 1..(k - 1) : buf[m + 1] = 0
             dest == LeadingZeros8(buf[i + 1]) - skipped + i * 8
         IN  Res(TRUE, 0, dest, off + dest + 1)
    ELSE Res(FALSE, 0, 0, off)

ReadSmallUnary(b, off) ==
    LET bytePos == off \div 8
        l       == Len(b) - bytePos
    IN  IF l = 0 THEN Res(FALSE, 0, 0, off)
        ELSE IF l >= 8
        THEN LET dest == LeadingZeros64(Word64Shl(b, bytePos, off % 8))
             IN  Res(TRUE, 0, dest, off + dest + 1)
        ELSE IF l < 0 THEN Panicked(off)
        ELSE LET buf     == SliceFrom(b, bytePos)
                 skipped == off % 8
                 masked  == buf[1] % Pow2(8 - skipped)
             IN  IF masked # 0
                 THEN LET dest == LeadingZeros8(ShlByte(masked, skipped))
                      IN  Res(TRUE, 0, dest, off + dest + 1)
                 ELSE UnaryTail(buf, skipped, off)

ReadBit(b, off) ==
    IF RemainingBits(b, off) < 1 THEN Res(FALSE, 0, 0, off)
    ELSE Res(TRUE, 0, BitAt(b, off), off + 1)

\* <<hi, lo>> >> s for s in 0..7
ShrPair(hi, lo, s) ==
    <<hi \div Pow2(s), (lo \div Pow2(s)) + (hi % Pow2(s)) * Pow2(16 - s)>>

ReadInt(b, off, bits) ==
    LET remaining == RemainingBits(b, off)
    IN  IF remaining < bits \/ bits > 32 THEN Res(FALSE, 0, 0, off)
        ELSE IF bits = 0 THEN Res(TRUE, 0, 0, off)
        ELSE LET buf        == SliceFrom(b, off \div 8)
                 bitOffset  == off % 8
                 endBit     == bitOffset + bits
                 shiftRight == (8 - (endBit % 8)) % 8
                 b0         == buf[1] % Pow2(8 - bitOffset)
                 raw == IF endBit > 24 THEN <<b0 * 256 + buf[2], buf[3] * 256 + buf[4]>>
                        ELSE IF endBit > 16 THEN <<b0, buf[2] * 256 + buf[3]>>
                        ELSE IF endBit > 8 THEN <<0, b0 * 256 + buf[2]>>
                        ELSE <<0, b0>>
                 v == ShrPair(raw[1], raw[2], shiftRight)
             IN  Res(TRUE, v[1], v[2], off + bits)

\* Bitstream.EndOfData
EndOfData(b, off) ==
    LET remaining == RemainingBits(b, off)
    IN  IF remaining >= 32 THEN FALSE
        ELSE IF remaining <= 0 THEN TRUE
        ELSE LET buf == SliceFrom(b, off \div 8)
                 b0  == ShlByte(buf[1], off % 8)
             IN  b0 = 0 /\ \A k \in 2..Len(buf) : buf[k] = 0

----------------------------------------------------------------------------
(* The writer of the round-trip test: (width, value) pairs MSB-first, back to  *)
(* back, the last byte padded with zero bits, then `tail` zero bytes.          *)

\* bit k (from the least significant) of the value <<hi, lo>>
ValBit(hi, lo, k) ==
    IF k < 16 THEN (lo \div Pow2(k)) % 2 ELSE (hi \div Pow2(k - 16)) % 2

ItemBits(it) == [j \in 1..it.width |-> ValBit(it.hi, it.lo, it.width - j)]

RECURSIVE StreamBits(_)
StreamBits(items) ==
    IF items = <<>> THEN <<>>
    ELSE ItemBits(Head(items)) \o StreamBits(Tail(items))

PackBytes(bitseq, tail) ==
    LET n == (Len(bitseq) + 7) \div 8
        bit(p) == IF p <= Len(bitseq) THEN bitseq[p] ELSE 0
    IN  [k \in 1..(n + tail) |->
            IF k > n THEN 0
            ELSE bit(8*k - 7) * 128 + bit(8*k - 6) * 64 + bit(8*k - 5) * 32
                 + bit(8*k - 4) * 16 + bit(8*k - 3) * 8 + bit(8*k - 2) * 4
                 + bit(8*k - 1) * 2 + bit(8*k)]

\* the widths the test writes and reads (0 and 32 are the ends of ReadInt's range)
IntWidths == {0, 1, 3, 8, 14, 32}

\* the values written at a width: 0, 1, a middle pattern, all ones
ItemsOfWidth(w) ==
    IF w = 0 THEN {[width |-> 0, hi |-> 0, lo |-> 0]}
    ELSE IF w = 32
    THEN {[width |-> 32, hi |-> h, lo |-> l] :
              h \in {0, 65535}, l \in {0, 1, 65535}}
    ELSE {[width |-> w, hi |-> 0, lo |-> l] : l \in {0, 1, Pow2(w) - 1}}

Items == UNION {ItemsOfWidth(w) : w \in IntWidths}

ItemSeqs == UNION {[1..n -> Items] : n \in 0..MaxItems}

----------------------------------------------------------------------------
(* The bit reader as a state machine: a buffer, then calls in any order *)

NoCall == [op |-> "none", n |-> 0, off0 |-> 0, res |-> Res(TRUE, 0, 0, 0)]

InitBits ==
    /\ written \in ItemSeqs
    /\ \E tail \in {0, MaxTail} : Bytes = PackBytes(StreamBits(written), tail)
    /\ Offset = 0
    /\ last = NoCall
    /\ rt = 0
    /\ calls = 0

\* rt counts the calls so far when they are exactly ReadInt with the written
\* widths, in order from offset 0; -1 once a call departs from that.
Track(op, n) ==
    IF rt >= 0 /\ op = "ReadInt" /\ rt < Len(written) /\ written[rt + 1].width = n
    THEN rt + 1 ELSE -1

Call(op, n, res) ==
    /\ calls < MaxCalls
    /\ last.res.panic = FALSE
    /\ Offset' = res.off
    /\ last' = [op |-> op, n |-> n, off0 |-> Offset, res |-> res]
    /\ rt' = Track(op, n)
    /\ calls' = calls + 1
    /\ UNCHANGED <<Bytes, written>>

ParkedBits ==
    /\ Bytes = <<>> /\ Offset = 0 /\ last = NoCall
    /\ written = <<>> /\ rt = 0 /\ calls = 0

ParkedClamp == sample = 0 /\ clamped = 0 /\ clampPc = "parked"

ParkedAC ==
    /\ numberOfBlocks = 0 /\ scanOrder = "progressive" /\ run = 0 /\ level = 0
    /\ pos = 0 /\ coeffs = <<>> /\ scanIdx = 0 /\ acPc = "parked"

\* image.Rectangle, and the zero Rectangle image.ZR
Rect(x0, y0, x1, y1) == [x0 |-> x0, y0 |-> y0, x1 |-> x1, y1 |-> y1]
ZR == Rect(0, 0, 0, 0)

\* a nil *decodeSliceJob, nil error, and no return value yet
NilJob == [id |-> 0, x |-> 0, y |-> 0, width |-> 0]
NoError == [slice |-> 0, what |-> "nil"]
NoResult == [kind |-> "none", bounds |-> ZR, err |-> NoError]

ParkedPic ==
    /\ frameHeader = [Width |-> 0, Height |-> 0, InterlaceMode |-> 0, HasAlpha |-> FALSE]
    /\ header = [NumberOfSlices |-> 0, SliceWidthFactor |-> 0, SliceHeightFactor |-> 0]
    /\ stream = "ok" /\ height = 0 /\ img = ZR /\ pc = "parked"
    /\ sliceI = 0 /\ x = 0 /\ y = 0 /\ sent = 0
    /\ jobCh = <<>> /\ errCh = <<>> /\ wg = 0 /\ worker = <<>>
    /\ result = NoResult /\ crashed = FALSE
    /\ received = <<>> /\ decoded = <<>> /\ failed = {} /\ firstErr = NoError

ParkedSlice ==
    /\ sliceSize = 0 /\ sliceHave = 0 /\ hdrSizeByte = 0
    /\ LumaDataSize = 0 /\ ChromaUDataSize = 0
    /\ pixelLen = 0 /\ slicePc = "parked" /\ sliceErr = "nil"

ParkedScratch ==
    /\ pool = {} /\ buffer = {} /\ rectDx = 0
    /\ isSubsampled = FALSE /\ isChroma = FALSE
    /\ chPc = "parked" /\ chErr = "nil"

\* what FrameHeader.Decode has produced before it runs
NoHeader == [err |-> "nil", panic |-> FALSE, luma |-> FALSE, chroma |-> FALSE, top |-> 0]

ParkedFH ==
    /\ hdrSize = 0 /\ streamLen = 0 /\ matrixFlags = 0
    /\ fhPc = "parked" /\ fhOut = NoHeader

ParkedMore == ParkedSlice /\ ParkedScratch /\ ParkedFH

DoReadBit ==
    /\ Call("ReadBit", 1, ReadBit(Bytes, Offset))
    /\ UNCHANGED <<varsClamp, varsAC, varsPic, varsMore>>

DoReadInt ==
    /\ \E n \in IntWidths \cup {33} : Call("ReadInt", n, ReadInt(Bytes, Offset, n))
    /\ UNCHANGED <<varsClamp, varsAC, varsPic, varsMore>>

DoReadSmallUnary ==
    /\ Call("ReadSmallUnary", 0, ReadSmallUnary(Bytes, Offset))
    /\ UNCHANGED <<varsClamp, varsAC, varsPic, varsMore>>

vars == <<varsBits, varsClamp, varsAC, varsPic, varsMore>>

BitsInit == InitBits /\ ParkedClamp /\ ParkedAC /\ ParkedPic /\ ParkedMore

NextBits == DoReadBit \/ DoReadInt \/ DoReadSmallUnary

SpecBits == BitsInit /\ [][NextBits]_vars

----------------------------------------------------------------------------
(* Properties of the bit reader *)

\* whether a 1-bit lies between bit p and the end of the buffer
HasOneFrom(b, p) == \E q \in p..(Len(b) * 8 - 1) : BitAt(b, q) = 1

\* the zero bits from bit p up to the first 1-bit, or to the end of the buffer
ZerosFrom(b, p) ==
    IF HasOneFrom(b, p)
    THEN (CHOOSE q \in p..(Len(b) * 8 - 1) :
              BitAt(b, q) = 1 /\ \A m \in p..(q - 1) : BitAt(b, m) = 0) - p
    ELSE Len(b) * 8 - p

\* C4: reading the written (width, value) pairs back with ReadInt, same widths
\* in the same order from offset 0, succeeds each time and returns the value
\* written, at whatever bit offset the read starts.
C4_ReadIntRoundTrip ==
    rt >= 1 =>
        /\ last.res.ok
        /\ last.res.hi = written[rt].hi
        /\ last.res.lo = written[rt].lo

\* C5: with the cursor inside the buffer, ReadSmallUnary returns true with k when
\* the bits from the cursor are k <= 55 zeros and then a 1-bit, and returns false
\* when no 1-bit lies between the cursor and the end of the buffer.
C5_ReadSmallUnary ==
    (last.op = "ReadSmallUnary" /\ last.off0 <= Len(Bytes) * 8) =>
        /\ (HasOneFrom(Bytes, last.off0) /\ ZerosFrom(Bytes, last.off0) <= 55) =>
               (last.res.ok /\ last.res.lo = ZerosFrom(Bytes, last.off0))
        /\ ~HasOneFrom(Bytes, last.off0) => ~last.res.ok

\* the bits a successful call consumes
Consumed(c) ==
    IF c.op = "ReadBit" THEN 1
    ELSE IF c.op = "ReadInt" THEN c.n
    ELSE ZerosFrom(Bytes, c.off0) + 1

\* C6: a call that returns true advances Offset by exactly the bits it consumed
\* (1 for ReadBit, n for ReadInt(n), the zeros and the 1-bit for ReadSmallUnary),
\* a call that returns false leaves Offset where it was, and Bytes stays the
\* buffer that was written.
C6_OffsetAdvance ==
    (last.op # "none" /\ ~last.res.panic) =>
        /\ last.res.ok => Offset = last.off0 + Consumed(last)
        /\ ~last.res.ok => Offset = last.off0
        /\ \E tail \in {0, MaxTail} : Bytes = PackBytes(StreamBits(written), tail)

----------------------------------------------------------------------------
(* clamp10bit(n int32) uint16 *)

\* the ends of the int32 range
MinInt32 == -2147483647 - 1
MaxInt32 == 2147483646 + 1

\* -n in int32 arithmetic: the negation of the least int32 wraps to itself
Neg32(v) == IF v = MinInt32 THEN MinInt32 ELSE -v

\* uint32(n)&0xfffffc00 != 0: some bit of n above bit 9 is set, which is the sign
\* bit for a negative n and a bit of n \div 1024 otherwise
HighBitsSet(v) == v < 0 \/ v \div 1024 # 0

\* v >> 31 on an int32 (arithmetic shift): all ones for a negative v
Sar31(v) == IF v < 0 THEN -1 ELSE 0

\* uint16(v) & 0x3ff
Low10(v) == v % 1024

clamp10bit(v) ==
    IF HighBitsSet(v) THEN Low10(Sar31(Neg32(v))) ELSE v

ClampInputs ==
    {MinInt32, MinInt32 + 1, MaxInt32 - 1, MaxInt32}
    \cup ((0 - ClampSpan)..(1023 + ClampSpan))

InitClamp ==
    /\ sample \in ClampInputs
    /\ clamped = 0
    /\ clampPc = "call"

ClampInit == InitClamp /\ ParkedBits /\ ParkedAC /\ ParkedPic /\ ParkedMore

DoClamp ==
    /\ clampPc = "call"
    /\ clamped' = clamp10bit(sample)
    /\ clampPc' = "returned"
    /\ UNCHANGED <<sample, varsBits, varsAC, varsPic, varsMore>>

NextClamp == DoClamp

SpecClamp == ClampInit /\ [][NextClamp]_vars

\* C7: clamp10bit(n) is n for 0 <= n <= 1023, 0 for n < 0 and 1023 for n > 1023.
C7_Clamp ==
    clampPc = "returned" =>
        /\ (0 <= sample /\ sample <= 1023) => clamped = sample
        /\ sample < 0 => clamped = 0
        /\ sample > 1023 => clamped = 1023

----------------------------------------------------------------------------
(* CodeParameters and the coefficient decoder (decodeCoefficients) *)

\* CodeParameters.LastRiceQ: p & 3
LastRiceQ(p) == p % 4
\* CodeParameters.RiceOrder: p >> 5
RiceOrder(p) == p \div 32
\* CodeParameters.ExpOrder: (p >> 2) & 7
ExpOrder(p) == (p \div 4) % 8

\* the table filled by init()
expGolombSubexprs(p) ==
    (0 - Pow2(ExpOrder(p))) + (LastRiceQ(p) + 1) * Pow2(RiceOrder(p))

\* the result of a codeword read: ok, the value stored in *dest, bs.Offset after
\* it, and whether the runtime panicked
Code(ok, val, off) == [ok |-> ok, val |-> val, off |-> off, panic |-> FALSE]

\* the exponential-Golomb branch of Decode, given what ReadInt(bits, &n) returned
ExpGolomb(p, nbits, r) ==
    IF r.ok
    THEN Code(TRUE, (Pow2(nbits) + (r.hi * 65536 + r.lo)) + expGolombSubexprs(p), r.off)
    ELSE Code(FALSE, 0, r.off)

\* the Golomb-Rice branch of Decode, given what ReadInt(k, &r) returned
GolombRice(q, k, r) ==
    IF r.ok THEN Code(TRUE, q * Pow2(k) + (r.hi * 65536 + r.lo), r.off)
    ELSE Code(FALSE, 0, r.off)

\* Decode after its call of ReadSmallUnary, which returned u
DecodeTail(p, b, u) ==
    IF u.panic THEN [ok |-> FALSE, val |-> 0, off |-> u.off, panic |-> TRUE]
    ELSE IF ~u.ok THEN Code(FALSE, 0, u.off)
    ELSE IF u.lo > LastRiceQ(p)
    THEN ExpGolomb(p, ExpOrder(p) - LastRiceQ(p) + (u.lo * 2) - u.lo - 1,
                   ReadInt(b, u.off, ExpOrder(p) - LastRiceQ(p) + (u.lo * 2) - u.lo - 1))
    ELSE IF RiceOrder(p) # 0
    THEN GolombRice(u.lo, RiceOrder(p), ReadInt(b, u.off, RiceOrder(p)))
    ELSE Code(TRUE, u.lo, u.off)

\* CodeParameters.Decode.  *dest is given as 0 when the call returns false: each
\* caller returns at once and never reads it.  A value read by ReadInt here is
\* narrower than 31 bits, so its halves are joined into one integer.
Decode(p, b, off) == DecodeTail(p, b, ReadSmallUnary(b, off))

dcCodeParams == <<4, 40, 40, 77, 77, 112, 112>>
acRunCodeParams == <<6, 6, 5, 5, 4, 41, 41, 41, 41, 40, 40, 40, 40, 40, 40, 76>>
acLevelCodeParams == <<4, 10, 5, 6, 4, 40, 40, 40, 40, 76>>

\* table[len(table)-1] unless v < len(table), then table[v]
ParamsFor(table, v) == IF v < Len(table) THEN table[v + 1] ELSE table[Len(table)]

ProgressiveScanOrder ==
    << 0,  1,  8,  9,  2,  3, 10, 11,
      16, 17, 24, 25, 18, 19, 26, 27,
       4,  5, 12, 20, 13,  6,  7, 14,
      21, 28, 29, 22, 15, 23, 30, 31,
      32, 33, 40, 48, 41, 34, 35, 42,
      49, 56, 57, 50, 43, 36, 37, 44,
      51, 58, 59, 52, 45, 38, 39, 46,
      53, 60, 61, 54, 47, 55, 62, 63>>

InterlacedScanOrder ==
    << 0,  8,  1,  9, 16, 24, 17, 25,
       2, 10,  3, 11, 18, 26, 19, 27,
      32, 40, 33, 34, 41, 48, 56, 49,
      42, 35, 43, 50, 57, 58, 51, 59,
       4, 12,  5,  6, 13, 20, 28, 21,
      14,  7, 15, 22, 29, 36, 44, 37,
      30, 23, 31, 38, 45, 52, 60, 53,
      46, 39, 47, 54, 61, 62, 55, 63>>

ScanTable(name) ==
    IF name = "interlaced" THEN InterlacedScanOrder ELSE ProgressiveScanOrder

\* int16(v)
Int16(v) == ((v + 32768) % 65536) - 32768

\* The coefficient buffer *[MaxBlocksPerSlice][64]int16 as the map from the cells
\* <<block, index>> written so far to their values; every other cell holds what
\* decodeChannel left there.
NoCoeffs == [cell \in {} |-> 0]
Store(c, blk, idx, v) ==
    [cell \in DOMAIN c \cup {<<blk, idx>>} |->
        IF cell = <<blk, idx>> THEN v ELSE c[cell]]

\* sign after `if code != 0 { sign ^= -(code & 1) } else { sign = 0 }`
NextSign(sign, code) ==
    IF code = 0 THEN 0
    ELSE IF code % 2 = 1 THEN (IF sign = 0 THEN -1 ELSE 0)
    ELSE sign

\* (((code + 1) >> 1) ^ sign) - sign, for sign 0 or -1
SignedHalf(code, sign) ==
    IF sign = 0 THEN (code + 1) \div 2 ELSE 0 - ((code + 1) \div 2)

\* the loop of decodeDCCoefficients from block i on; DCStep is one pass of it
\* after the codeword read, which returned c
RECURSIVE DCLoop(_, _, _, _, _, _, _, _)
DCStep(b, n, i, sign, prev, dest, c) ==
    IF ~c.ok THEN [ok |-> FALSE, off |-> c.off, dest |-> dest, panic |-> c.panic]
    ELSE DCLoop(b, c.off, n, i + 1, c.val, NextSign(sign, c.val),
                prev + SignedHalf(c.val, NextSign(sign, c.val)),
                Store(dest, i, 0,
                      Int16(prev + SignedHalf(c.val, NextSign(sign, c.val)))))

DCLoop(b, off, n, i, code, sign, prev, dest) ==
    IF i >= n THEN [ok |-> TRUE, off |-> off, dest |-> dest, panic |-> FALSE]
    ELSE DCStep(b, n, i, sign, prev, dest,
                Decode(ParamsFor(dcCodeParams, code), b, off))

\* (code >> 1) ^ (-(code & 1))
Unzigzag(code) ==
    IF code % 2 = 0 THEN code \div 2 ELSE 0 - (code \div 2) - 1

\* decodeDCCoefficients after the first codeword read, which returned c
DCFirst(b, dest, n, c) ==
    IF ~c.ok THEN [ok |-> FALSE, off |-> c.off, dest |-> dest, panic |-> c.panic]
    ELSE DCLoop(b, c.off, n, 1, 5, 0, Unzigzag(c.val),
                Store(dest, 0, 0, Int16(Unzigzag(c.val))))

decodeDCCoefficients(b, off, dest, n) == DCFirst(b, dest, n, Decode(184, b, off))

\* 31 - uint(bits.LeadingZeros32(uint32(n))): floor(log2 n) for n >= 1.  For n = 0
\* the unsigned subtraction wraps to 2^64 - 1 and pos >> that is 0.
ShrLog2(v, n) ==
    IF n = 0 THEN 0
    ELSE v \div Pow2(CHOOSE e \in 0..31 : Pow2(e) <= n /\ n < Pow2(e + 1))

\* pos & (numberOfBlocks - 1), pos >= 0: the mask is all ones for 0 blocks, and
\* the low bits below a power of two otherwise (a slice holds 0, 2, 4, 8, 16 or
\* 32 blocks)
BlockOf(v, n) == IF n = 0 THEN v ELSE v % n

\* the bytes that occur in the coefficient data tried
ACByteValues == {0, 1, 64, 130, 136, 255}

\* the block counts decodeChannel passes: 4 per macroblock of a slice 0, 1, 2, 4
\* or 8 macroblocks wide, halved for subsampled chroma
BlockCounts == {0, 2, 4, 8, 16, 32}

InitAC ==
    /\ Bytes \in UNION {[1..n -> ACByteValues] : n \in 0..MaxACBytes}
    /\ Offset = 0
    /\ last = NoCall /\ written = <<>> /\ rt = 0 /\ calls = 0
    /\ numberOfBlocks \in BlockCounts
    /\ scanOrder \in {"progressive", "interlaced"}
    /\ run = 0 /\ level = 0 /\ pos = 0
    /\ coeffs = NoCoeffs
    /\ scanIdx = -1
    /\ acPc = "dc"

ACInit == InitAC /\ ParkedClamp /\ ParkedPic /\ ParkedMore

DCDone(d) ==
    /\ Offset' = d.off
    /\ coeffs' = d.dest
    /\ acPc' = IF d.panic THEN "panic" ELSE IF d.ok THEN "enter" ELSE "error"

\* decodeCoefficients, first half: decodeDCCoefficients and its error return
DecodeDC ==
    /\ acPc = "dc"
    /\ DCDone(decodeDCCoefficients(Bytes, Offset, coeffs, numberOfBlocks))
    /\ UNCHANGED <<Bytes, last, written, rt, calls, numberOfBlocks, scanOrder,
                   run, level, pos, scanIdx, varsClamp, varsPic, varsMore>>

\* decodeACCoefficients, lines 146-151: the locals before the loop
ACEnter ==
    /\ acPc = "enter"
    /\ run' = 4
    /\ level' = 2
    /\ pos' = numberOfBlocks - 1
    /\ acPc' = "ac"
    /\ UNCHANGED <<varsBits, numberOfBlocks, scanOrder, coeffs, scanIdx, varsClamp, varsPic, varsMore>>

\* the loop condition fails: return nil
ACReturn ==
    /\ acPc = "ac"
    /\ EndOfData(Bytes, Offset)
    /\ acPc' = "done"
    /\ UNCHANGED <<varsBits, numberOfBlocks, scanOrder, run, level, pos, coeffs,
                   scanIdx, varsClamp, varsPic, varsMore>>

\* One pass of the loop body, after the reads: r is what the run codeword read
\* returned, l the level codeword read, sg the ReadBit of the sign (each read
\* starts where the one before it ended).  scanOrder[pos>>log2BlockCount] is a Go
\* slice index: outside 0..63 the runtime panics.
ACBody(r, l, sg) ==
    LET pos2   == pos + r.val + 1
        level2 == l.val + 1
        block  == BlockOf(pos2, numberOfBlocks)
        idx    == ShrLog2(pos2, numberOfBlocks)
    IN  IF ~r.ok
        THEN /\ acPc' = IF r.panic THEN "panic" ELSE "error"
             /\ Offset' = r.off
             /\ UNCHANGED <<run, level, pos, coeffs, scanIdx>>
        ELSE IF ~l.ok
        THEN /\ acPc' = IF l.panic THEN "panic" ELSE "error"
             /\ Offset' = l.off
             /\ run' = r.val
             /\ pos' = pos2
             /\ UNCHANGED <<level, coeffs, scanIdx>>
        ELSE IF block >= numberOfBlocks
        THEN /\ acPc' = "error"
             /\ Offset' = l.off
             /\ run' = r.val
             /\ pos' = pos2
             /\ level' = level2
             /\ UNCHANGED <<coeffs, scanIdx>>
        ELSE IF idx > 63
        THEN /\ acPc' = "panic"
             /\ Offset' = l.off
             /\ run' = r.val
             /\ pos' = pos2
             /\ level' = level2
             /\ scanIdx' = idx
             /\ UNCHANGED coeffs
        ELSE /\ acPc' = IF sg.ok THEN "ac" ELSE "error"
             /\ Offset' = sg.off
             /\ run' = r.val
             /\ pos' = pos2
             /\ level' = level2
             /\ scanIdx' = idx
             /\ coeffs' = IF ~sg.ok THEN coeffs
                          ELSE Store(coeffs, block, ScanTable(scanOrder)[idx + 1],
                                     Int16(IF sg.lo = 1 THEN 0 - level2 ELSE level2))

ACLevel(r, l) == ACBody(r, l, ReadBit(Bytes, l.off))

ACRun(r) == ACLevel(r, Decode(ParamsFor(acLevelCodeParams, level), Bytes, r.off))

ACIterate ==
    /\ acPc = "ac"
    /\ ~EndOfData(Bytes, Offset)
    /\ ACRun(Decode(ParamsFor(acRunCodeParams, run), Bytes, Offset))
    /\ UNCHANGED <<Bytes, last, written, rt, calls, numberOfBlocks, scanOrder,
                   varsClamp, varsPic, varsMore>>

NextAC == DecodeDC \/ ACEnter \/ ACReturn \/ ACIterate

SpecAC == ACInit /\ [][NextAC]_vars

\* C10: decodeACCoefficients returns an error whenever pos >> log2B exceeds 63 or
\* the block index falls outside the slice's blocks, so that it never indexes the
\* scan-order table outside 0..63 and every coefficient it writes goes to
\* coeffs[b][i] with 0 <= b < numberOfBlocks and 0 <= i <= 63.
C10_ACBounds ==
    /\ acPc # "panic"
    /\ scanIdx <= 63
    /\ acPc \in {"ac", "done"} =>
           \A cell \in DOMAIN coeffs :
               cell[2] # 0 =>
                   /\ 0 <= cell[1] /\ cell[1] < numberOfBlocks
                   /\ 0 <= cell[2] /\ cell[2] <= 63

----------------------------------------------------------------------------
(* DecodePicture (picture.go:96-203) and DecodeFrame *)

MacroblockWidth == 16
MacroblockHeight == 16
numberOfWorkers == 8

InterlaceModeNone == 0
InterlaceModeTopFirst == 1
InterlaceModeTopSecond == 2
FieldOrderFirst == 1
FieldOrderSecond == 2

Workers == 1..numberOfWorkers

Max(a, b) == IF a > b THEN a ELSE b
Min(a, b) == IF a < b THEN a ELSE b

\* image.Rectangle: Empty, Dx, Dy, Intersect (the zero Rectangle when the
\* intersection is empty)
Empty(r) == r.x0 >= r.x1 \/ r.y0 >= r.y1
Dx(r) == r.x1 - r.x0
Dy(r) == r.y1 - r.y0
Clip(r, s) == Rect(Max(r.x0, s.x0), Max(r.y0, s.y0), Min(r.x1, s.x1), Min(r.y1, s.y1))
Intersect(r, s) == IF Empty(Clip(r, s)) THEN ZR ELSE Clip(r, s)

\* the bounds of img.SubImage(r): (*image.YCbCr).SubImage intersects r with the
\* image's rectangle and returns an image with zero bounds when that is empty
SubImage(p, r) == Intersect(r, p)

\* a switch that leaves the height of an interlaced frame whole
FieldHeightWhole(h, mode, fieldOrder) == h

\* the switch on frameHeader.Flags.InterlaceMode(), lines 102-119
FieldHeight(h, mode, fieldOrder) ==
    IF mode = InterlaceModeTopFirst
    THEN (IF fieldOrder = FieldOrderFirst THEN (h + 1) \div 2 ELSE h \div 2)
    ELSE IF mode = InterlaceModeTopSecond
    THEN (IF fieldOrder = FieldOrderFirst THEN h \div 2 ELSE (h + 1) \div 2)
    ELSE h

\* the rectangle of the image allocated at lines 121-123
ImageRect(w, h) ==
    Rect(0, 0, ((w + MacroblockWidth - 1) \div MacroblockWidth) * MacroblockWidth,
               ((h + MacroblockHeight - 1) \div MacroblockHeight) * MacroblockHeight)

SliceWidthMacroblocks(h) == Pow2(h.SliceWidthFactor)
SliceHeightMacroblocks(h) == Pow2(h.SliceHeightFactor)

\* sliceHeight, line 135
SliceHeight(h) == SliceHeightMacroblocks(h) * MacroblockHeight

\* a halving loop that does not stop at one macroblock
RECURSIVE HalveBelowMacroblock(_, _, _)
HalveBelowMacroblock(sliceWidth, x0, w) ==
    IF sliceWidth > 1 /\ x0 + sliceWidth > w
    THEN HalveBelowMacroblock(sliceWidth \div 2, x0, w)
    ELSE sliceWidth

\* the halving loop of lines 173-175
RECURSIVE Halve(_, _, _)
Halve(sliceWidth, x0, w) ==
    IF sliceWidth > MacroblockWidth /\ x0 + sliceWidth > w
    THEN Halve(sliceWidth \div 2, x0, w)
    ELSE sliceWidth

\* sliceWidth at line 176 for a slice that starts at x0
SliceWidth(h, x0, w) == Halve(SliceWidthMacroblocks(h) * MacroblockWidth, x0, w)

\* rect at line 155, for a job a worker received
WorkerRect(job) ==
    Intersect(Rect(job.x, job.y, job.x + job.width, job.y + SliceHeight(header)), img)

SliceError(id) == [slice |-> id, what |-> "decode"]
Failure(what) == [kind |-> "error", bounds |-> ZR, err |-> [slice |-> 0, what |-> what]]

\* Lines 96-164: the alpha check, the field height and the image, the picture
\* header and the slice index table, the channels, and the start of the workers.
\* No other goroutine exists until this has run.
Begin ==
    /\ pc = "begin"
    /\ IF frameHeader.HasAlpha
       THEN /\ result' = Failure("alpha channels not supported")
            /\ pc' = "returned"
            /\ UNCHANGED <<height, img, worker, wg>>
       ELSE /\ height' = FieldHeight(frameHeader.Height, frameHeader.InterlaceMode,
                                     FieldOrderFirst)
            /\ img' = ImageRect(frameHeader.Width, height')
            /\ IF stream # "ok"
               THEN /\ result' = Failure(stream)
                    /\ pc' = "returned"
                    /\ UNCHANGED <<worker, wg>>
               ELSE /\ worker' = [w \in Workers |-> [pc |-> "recv", job |-> NilJob]]
                    /\ wg' = numberOfWorkers
                    /\ pc' = IF header.NumberOfSlices = 0 THEN "sentinels" ELSE "dispatch"
                    /\ UNCHANGED result
    /\ UNCHANGED <<frameHeader, header, stream, sliceI, x, y, sent, jobCh, errCh,
                   crashed, received, decoded, failed, firstErr,
                   varsBits, varsClamp, varsAC, varsMore>>

\* One pass of the loop of lines 170-189.  jobCh has room for NumberOfSlices jobs.
Dispatch ==
    /\ pc = "dispatch" /\ ~crashed
    /\ sliceI < header.NumberOfSlices
    /\ Len(jobCh) < header.NumberOfSlices
    /\ jobCh' = Append(jobCh, [id |-> sliceI + 1, x |-> x, y |-> y,
                               width |-> SliceWidth(header, x, frameHeader.Width)])
    /\ IF x + SliceWidth(header, x, frameHeader.Width) >= frameHeader.Width
       THEN x' = 0 /\ y' = y + SliceHeight(header)
       ELSE x' = x + SliceWidth(header, x, frameHeader.Width) /\ y' = y
    /\ sliceI' = sliceI + 1
    /\ pc' = IF sliceI + 1 = header.NumberOfSlices THEN "sentinels" ELSE "dispatch"
    /\ UNCHANGED <<frameHeader, header, stream, height, img, sent, errCh, wg, worker,
                   result, crashed, received, decoded, failed, firstErr,
                   varsBits, varsClamp, varsAC, varsMore>>

\* one nil job too few
SentinelsShort == numberOfWorkers - 1

\* The loop of lines 191-193 sends one nil job for each worker.
Sentinels == numberOfWorkers

\* One send of the loop of lines 191-193 that finds room in jobCh's buffer.
SendNil ==
    /\ pc = "sentinels" /\ ~crashed
    /\ sent < Sentinels
    /\ Len(jobCh) < header.NumberOfSlices
    /\ jobCh' = Append(jobCh, NilJob)
    /\ sent' = sent + 1
    /\ pc' = IF sent + 1 = Sentinels THEN "wait" ELSE "sentinels"
    /\ UNCHANGED <<frameHeader, header, stream, height, img, sliceI, x, y, errCh, wg,
                   worker, result, crashed, received, decoded, failed, firstErr,
                   varsBits, varsClamp, varsAC, varsMore>>

\* One send of the loop of lines 191-193 on a channel without a buffer
\* (NumberOfSlices = 0): the send completes when worker w is at its receive, line
\* 150; w gets nil, returns at line 152, and its deferred wg.Done runs.
HandOff(w) ==
    /\ pc = "sentinels" /\ ~crashed
    /\ sent < Sentinels
    /\ header.NumberOfSlices = 0
    /\ worker[w].pc = "recv"
    /\ worker' = [worker EXCEPT ![w].pc = "exited"]
    /\ wg' = wg - 1
    /\ sent' = sent + 1
    /\ pc' = IF sent + 1 = Sentinels THEN "wait" ELSE "sentinels"
    /\ UNCHANGED <<frameHeader, header, stream, height, img, sliceI, x, y, jobCh, errCh,
                   result, crashed, received, decoded, failed, firstErr,
                   varsBits, varsClamp, varsAC, varsMore>>

\* Lines 150-153 of worker w: the receive from jobCh; on nil the worker returns and
\* its deferred wg.Done runs.
Recv(w) ==
    /\ pc \in {"dispatch", "sentinels", "wait"} /\ ~crashed
    /\ worker[w].pc = "recv"
    /\ Len(jobCh) > 0
    /\ jobCh' = Tail(jobCh)
    /\ IF Head(jobCh) = NilJob
       THEN /\ worker' = [worker EXCEPT ![w].pc = "exited"]
            /\ wg' = wg - 1
            /\ UNCHANGED received
       ELSE /\ worker' = [worker EXCEPT ![w] = [pc |-> "decode", job |-> Head(jobCh)]]
            /\ received' = [received EXCEPT ![Head(jobCh).id] = @ + 1]
            /\ UNCHANGED wg
    /\ UNCHANGED <<frameHeader, header, stream, height, img, pc, sliceI, x, y, sent,
                   errCh, result, crashed, decoded, failed, firstErr,
                   varsBits, varsClamp, varsAC, varsMore>>

\* a send that replaces what errCh holds
OfferReplacing(ch, e) == <<e>>

\* the select of lines 157-160 on errCh, a channel with a buffer of one
Offer(ch, e) == IF Len(ch) < 1 THEN Append(ch, e) ELSE ch

\* what DecodeSlice does at line 156: it returns nil, returns an error, or a
\* run-time panic inside it ends the program
SliceOutcomes == {"nil", "error", "panic"}

\* Lines 154-161 of worker w: the section reader, the rectangle, DecodeSlice and
\* the report of its error.
DecodeSlice(w) ==
    /\ pc \in {"dispatch", "sentinels", "wait"} /\ ~crashed
    /\ worker[w].pc = "decode"
    /\ \E outcome \in SliceOutcomes :
          IF outcome = "panic"
          THEN /\ crashed' = TRUE
               /\ UNCHANGED <<worker, decoded, failed, errCh, firstErr>>
          ELSE /\ worker' = [worker EXCEPT ![w] = [pc |-> "recv", job |-> NilJob]]
               /\ decoded' = [decoded EXCEPT ![worker[w].job.id] = @ + 1]
               /\ UNCHANGED crashed
               /\ IF outcome = "error"
                  THEN /\ failed' = failed \cup {worker[w].job.id}
                       /\ errCh' = Offer(errCh, SliceError(worker[w].job.id))
                       /\ firstErr' = IF firstErr = NoError
                                      THEN SliceError(worker[w].job.id) ELSE firstErr
                  ELSE UNCHANGED <<failed, errCh, firstErr>>
    /\ UNCHANGED <<frameHeader, header, stream, height, img, pc, sliceI, x, y, sent,
                   jobCh, wg, result, received,
                   varsBits, varsClamp, varsAC, varsMore>>

\* a join that does not wait
JoinedEarly == TRUE

\* wg.Wait, line 195, returns when every worker has called wg.Done
Joined == wg = 0

\* Lines 195-202: the join, the read of errCh, and the return.
Return ==
    /\ pc = "wait" /\ ~crashed
    /\ Joined
    /\ IF Len(errCh) > 0
       THEN /\ result' = [kind |-> "error", bounds |-> ZR, err |-> Head(errCh)]
            /\ errCh' = Tail(errCh)
       ELSE /\ result' = [kind |-> "image",
                          bounds |-> SubImage(img, Rect(0, 0, frameHeader.Width, height)),
                          err |-> NoError]
            /\ UNCHANGED errCh
    /\ pc' = "returned"
    /\ UNCHANGED <<frameHeader, header, stream, height, img, sliceI, x, y, sent, jobCh,
                   wg, worker, crashed, received, decoded, failed, firstErr,
                   varsBits, varsClamp, varsAC, varsMore>>

----------------------------------------------------------------------------
(* The slice walk alone: the producer runs lines 96-189 while no worker has   *)
(* yet received a job (jobCh holds every job of the picture).                 *)

\* the slices of one row of the walk, from a slice that starts at x0
RECURSIVE SlicesInRow(_, _, _)
SlicesInRow(h, x0, w) ==
    IF x0 + SliceWidth(h, x0, w) >= w THEN 1
    ELSE 1 + SlicesInRow(h, x0 + SliceWidth(h, x0, w), w)

\* the slices the walk needs until y reaches the bottom of a frame fh.Height high
SlicesNeeded(fh, h) ==
    ((fh.Height + SliceHeight(h) - 1) \div SliceHeight(h)) * SlicesInRow(h, 0, fh.Width)

\* widths and heights: whole macroblocks, one pixel less, and one pixel more than
\* the macroblocks before
TilingSizes(maxMB) == {16 * a - r : a \in 1..maxMB, r \in {0, 1, 15}}

Unborn == [w \in Workers |-> [pc |-> "unborn", job |-> NilJob]]

\* the locals of DecodePicture and the history before it runs, for a picture of
\* n slices
PicStart(n) ==
    /\ height = 0 /\ img = ZR /\ pc = "begin"
    /\ sliceI = 0 /\ x = 0 /\ y = 0 /\ sent = 0
    /\ jobCh = <<>> /\ errCh = <<>> /\ wg = 0 /\ worker = Unborn
    /\ result = NoResult /\ crashed = FALSE
    /\ received = [j \in 1..n |-> 0] /\ decoded = [j \in 1..n |-> 0]
    /\ failed = {} /\ firstErr = NoError

InitTiling ==
    /\ \E w \in TilingSizes(MaxWidthMB), h \in TilingSizes(MaxHeightMB),
          wf \in 0..3, hf \in 0..3 :
          /\ frameHeader = [Width |-> w, Height |-> h,
                            InterlaceMode |-> InterlaceModeNone, HasAlpha |-> FALSE]
          /\ header = [NumberOfSlices |->
                           SlicesNeeded([Width |-> w, Height |-> h],
                                        [SliceWidthFactor |-> wf, SliceHeightFactor |-> hf]),
                       SliceWidthFactor |-> wf, SliceHeightFactor |-> hf]
    /\ stream = "ok"
    /\ PicStart(header.NumberOfSlices)

TilingInit == InitTiling /\ ParkedBits /\ ParkedClamp /\ ParkedAC /\ ParkedMore

NextTiling == Begin \/ Dispatch

SpecTiling == TilingInit /\ [][NextTiling]_vars

\* whether two rectangles share a pixel
Overlap(r, s) ==
    Max(r.x0, s.x0) < Min(r.x1, s.x1) /\ Max(r.y0, s.y0) < Min(r.y1, s.y1)

Area(r) == IF Empty(r) THEN 0 ELSE Dx(r) * Dy(r)

\* the pixels of the rectangles the workers compute for the first k jobs of jobCh
RECURSIVE AreaOfJobs(_)
AreaOfJobs(k) == IF k = 0 THEN 0 ELSE Area(WorkerRect(jobCh[k])) + AreaOfJobs(k - 1)

\* C2: the rectangles assigned to the slice jobs, each intersected with the image
\* bounds, are pairwise disjoint (each job dispatched shares no pixel with any job
\* dispatched before it), and once the walk has dispatched the slices it needs to
\* reach the bottom of the frame they cover the macroblock-rounded image exactly:
\* disjoint rectangles inside the image whose areas add up to the image's area.
C2_SliceTiling ==
    /\ \A k \in 1..(Len(jobCh) - 1) :
           ~Overlap(WorkerRect(jobCh[k]), WorkerRect(jobCh[Len(jobCh)]))
    /\ pc = "sentinels" =>
           /\ img = ImageRect(frameHeader.Width, frameHeader.Height)
           /\ AreaOfJobs(Len(jobCh)) = Area(img)

\* the walk has finished on a frame whose right-edge slices were halved and whose
\* last row was cut by the image bounds
C2_Witness ==
    /\ pc = "sentinels"
    /\ Len(jobCh) = header.NumberOfSlices
    /\ \E k \in 1..Len(jobCh) :
           /\ jobCh[k].width < SliceWidthMacroblocks(header) * MacroblockWidth
           /\ jobCh[k].width > MacroblockWidth
    /\ \E k \in 1..Len(jobCh) :
           /\ ~Empty(WorkerRect(jobCh[k]))
           /\ Dy(WorkerRect(jobCh[k])) < SliceHeight(header)
    /\ \E k \in 1..Len(jobCh) : jobCh[k].y > 0

----------------------------------------------------------------------------
(* DecodePicture with its workers.                                            *)

\* what the reads of lines 125-133 meet: a picture header and an index table, a
\* picture header that does not decode, or a stream that ends inside the table
Streams == {"ok", "invalid picture header", "EOF"}

InitPool ==
    /\ \E n \in 0..MaxSlices, alpha \in BOOLEAN :
          /\ frameHeader = [Width |-> 2 * MacroblockWidth, Height |-> MacroblockHeight,
                            InterlaceMode |-> InterlaceModeNone, HasAlpha |-> alpha]
          /\ header = [NumberOfSlices |-> n, SliceWidthFactor |-> 0,
                       SliceHeightFactor |-> 0]
    /\ stream \in Streams
    /\ PicStart(header.NumberOfSlices)

PoolInit == InitPool /\ ParkedBits /\ ParkedClamp /\ ParkedAC /\ ParkedMore

Receive == \E w \in Workers : Recv(w)
Decode1 == \E w \in Workers : DecodeSlice(w)
SendNilTo == \E w \in Workers : HandOff(w)

NextPool == Begin \/ Dispatch \/ SendNil \/ SendNilTo \/ Receive \/ Decode1 \/ Return

SpecPool == PoolInit /\ [][NextPool]_vars

\* every goroutine that can take a step is eventually scheduled
FairPool == SpecPool /\ WF_vars(NextPool)

\* DecodePicture got past the reads of lines 97-133 and started its workers
Started == ~frameHeader.HasAlpha /\ stream = "ok"

SliceIds == 1..header.NumberOfSlices

\* C1: DecodePicture never returns a partial image.  When it has returned and at
\* least one slice job reported a decode error, it returned an error and no
\* image, and the error is the first one that was written into errCh (later ones
\* were dropped); when no job reported an error (and the headers were accepted) it
\* returned the image, and every slice of that image had been decoded.
C1_NoPartialImage ==
    pc = "returned" =>
       /\ result.kind \in {"error", "image"}
       /\ failed # {} =>
             /\ result.kind = "error" /\ result.bounds = ZR
             /\ result.err = firstErr /\ firstErr.slice \in failed
       /\ (failed = {} /\ Started) => result.kind = "image" /\ result.err = NoError
       /\ result.kind = "image" => \A j \in SliceIds : decoded[j] = 1

\* two jobs reported an error, the second was dropped, and an error was returned
C1_Witness ==
    /\ pc = "returned"
    /\ Cardinality(failed) >= 2
    /\ result.kind = "error"

\* C8: worker-pool shutdown.  For every slice count (jobCh of that capacity, the
\* jobs, then 8 nil sentinels from the one producer), when no slice decode ends
\* the program, DecodePicture eventually returns in every fair interleaving; and
\* when it has returned, every worker it started has exited on a sentinel of its
\* own: all the sentinels were sent and none is left in jobCh.
C8_Shutdown ==
    /\ <>(pc = "returned" \/ crashed)
    /\ [](pc = "returned" /\ Started =>
             /\ \A w \in Workers : worker[w].pc = "exited"
             /\ sent = numberOfWorkers /\ jobCh = <<>> /\ wg = 0)

\* DecodePicture returned for a picture without slices, whose jobCh has no buffer
C8_Witness ==
    /\ pc = "returned" /\ Started
    /\ header.NumberOfSlices = 0
    /\ sent = numberOfWorkers
    /\ \A w \in Workers : worker[w].pc = "exited"

\* the workers that hold job j between their receive and the end of its decode
Holders(j) == {w \in Workers : worker[w].pc = "decode" /\ worker[w].job.id = j}

\* C9: every slice job dispatched is taken from jobCh by exactly one worker and
\* decoded exactly once: no job is received or decoded twice, only dispatched
\* jobs are received, a job received and not yet decoded is held by exactly one
\* worker; and when DecodePicture has returned (after starting its workers) every
\* job has been received and decoded, also those that were outstanding when
\* another job reported an error.
C9_EachJobOnce ==
    /\ \A j \in SliceIds :
          /\ received[j] <= 1 /\ decoded[j] <= received[j]
          /\ received[j] = 1 => j <= sliceI
          /\ Cardinality(Holders(j)) = received[j] - decoded[j]
    /\ (pc = "returned" /\ Started) =>
          \A j \in SliceIds : received[j] = 1 /\ decoded[j] = 1

\* DecodePicture returned after one job reported an error and another job was
\* decoded without one
C9_Witness ==
    /\ pc = "returned"
    /\ failed # {}
    /\ \E j \in SliceIds \ failed : decoded[j] = 1

----------------------------------------------------------------------------
(* DecodeFrame: DecodePicture for field one of a frame of any declared size.  *)

\* declared sizes: none, one pixel, around one and two macroblocks, and the sizes
\* of the repository's test frames
FrameWidths == {0, 1, 16, 17, 1920}
FrameHeights == {0, 1, 2, 17, 32, 1080, 1081}

\* FrameFlags.InterlaceMode() yields the two bits 0x0c of the flags byte
InterlaceModes == 0..3

InitFrame ==
    /\ \E w \in FrameWidths, h \in FrameHeights, mode \in InterlaceModes, n \in 0..1 :
          /\ frameHeader = [Width |-> w, Height |-> h,
                            InterlaceMode |-> mode, HasAlpha |-> FALSE]
          /\ header = [NumberOfSlices |-> n, SliceWidthFactor |-> 3,
                       SliceHeightFactor |-> 0]
    /\ stream = "ok"
    /\ PicStart(header.NumberOfSlices)

FrameInit == InitFrame /\ ParkedBits /\ ParkedClamp /\ ParkedAC /\ ParkedMore

SpecFrame == FrameInit /\ [][NextPool]_vars

\* the bounds the returned image is said to have
DeclaredBounds ==
    /\ Dx(result.bounds) = frameHeader.Width
    /\ frameHeader.InterlaceMode = InterlaceModeNone =>
          Dy(result.bounds) = frameHeader.Height
    /\ frameHeader.InterlaceMode \in {InterlaceModeTopFirst, InterlaceModeTopSecond} =>
          2 * Dy(result.bounds) - frameHeader.Height \in {-1, 0, 1}
    /\ (frameHeader.Width = 1920 /\ frameHeader.Height = 1080
          /\ frameHeader.InterlaceMode = InterlaceModeTopFirst) =>
          result.bounds = Rect(0, 0, 1920, 540)

\* the internal image has sides rounded up to whole macroblocks
RoundedUp ==
    /\ img.x0 = 0 /\ img.y0 = 0
    /\ img.x1 % MacroblockWidth = 0 /\ img.y1 % MacroblockHeight = 0
    /\ img.x1 - frameHeader.Width \in 0..(MacroblockWidth - 1)
    /\ img.y1 - height \in 0..(MacroblockHeight - 1)

\* C3 as stated: a successful decode through DecodeFrame (field one) of a frame
\* declared W x H returns an image whose bounds are exactly W x H when the frame is
\* progressive and W x half-height when it is interlaced (1920x1080 top-first
\* gives 1920x540), cropped from an internal image whose sides are rounded up to
\* whole 16-pixel macroblocks.
C3_AsStated ==
    (pc = "returned" /\ result.kind = "image") => DeclaredBounds /\ RoundedUp

\* C3, amended: the bounds are as stated when the declared width and the field
\* height are at least 1; when either is 0 the image returned has the zero
\* rectangle as its bounds (0 x 0).  The internal image is rounded up to whole
\* macroblocks in both cases.
C3_FrameBounds ==
    (pc = "returned" /\ result.kind = "image") =>
       /\ RoundedUp
       /\ IF frameHeader.Width >= 1 /\ height >= 1
          THEN DeclaredBounds
          ELSE result.bounds = ZR

\* the decode of field one of a top-first 1920x1080 frame returned 1920x540
C3_Witness ==
    /\ pc = "returned" /\ result.kind = "image"
    /\ frameHeader.Width = 1920 /\ frameHeader.Height = 1080
    /\ frameHeader.InterlaceMode = InterlaceModeTopFirst
    /\ Dx(result.bounds) = 1920 /\ Dy(result.bounds) = 540

----------------------------------------------------------------------------
(* SliceDecoder.DecodeSlice (slice decoder, lines 301-349) and                *)
(* SliceHeader.Decode (lines 29-57).  The slice is an io.SectionReader of     *)
(* sliceSize bytes over a stream that holds sliceHave of them.                *)

\* hdrSize, line 40
SliceHeaderSize(b0) == b0 \div 8

\* the error SliceHeader.Decode returns ("nil" for none): ReadAt returns an error
\* when it cannot fill the buffer it is given
SliceHeaderDecode(size, have, b0) ==
    IF Min(size, have) < 1 THEN "EOF"
    ELSE IF b0 < 48 THEN "slice header size must be at least 48"
    ELSE IF b0 % 8 # 0 THEN "slice header size not divisible by 8"
    ELSE IF Min(size, have) < SliceHeaderSize(b0) THEN "EOF"
    ELSE "nil"

\* what decodeChannel does with n bytes of data: it returns nil, returns an
\* error, or panics inside decodeACCoefficients.  On no data the first codeword
\* read of decodeDCCoefficients fails (ReadSmallUnary returns false on an empty
\* buffer), so it returns an error.
ChannelOutcomes(n) ==
    IF ~decodeDCCoefficients(<<>>, 0, NoCoeffs, 0).ok /\ n = 0
    THEN {"error"} ELSE SliceOutcomes

\* the first bytes tried as hdrSizeBuf[0]
HdrSizeBytes == {0, 47, 48, 52, 56, 64}

InitSlice ==
    /\ sliceSize \in 0..MaxSliceBytes
    /\ sliceHave \in {sliceSize, Max(sliceSize - 1, 0)}
    /\ hdrSizeByte \in HdrSizeBytes
    /\ LumaDataSize \in 0..(MaxSliceBytes - 5)
    /\ ChromaUDataSize \in 0..(MaxSliceBytes - 5)
    /\ pixelLen = 0 /\ slicePc = "enter" /\ sliceErr = "nil"

SliceInit ==
    InitSlice /\ ParkedBits /\ ParkedClamp /\ ParkedAC /\ ParkedPic
    /\ ParkedScratch /\ ParkedFH

\* the return of an error, and the end of the program in a run-time panic
ReturnError(e) == slicePc' = "returned" /\ sliceErr' = e
Panic(e) == slicePc' = "panic" /\ sliceErr' = e

\* Lines 302-321: the slice header, pixelData and its read, the scaled matrix.
SliceEnter ==
    /\ slicePc = "enter"
    /\ IF SliceHeaderDecode(sliceSize, sliceHave, hdrSizeByte) # "nil"
       THEN /\ ReturnError(SliceHeaderDecode(sliceSize, sliceHave, hdrSizeByte))
            /\ UNCHANGED pixelLen
       ELSE /\ pixelLen' = sliceSize - SliceHeaderSize(hdrSizeByte)
            /\ IF sliceHave < sliceSize
               THEN ReturnError("EOF")
               ELSE slicePc' = "luma" /\ UNCHANGED sliceErr
    /\ UNCHANGED <<sliceSize, sliceHave, hdrSizeByte, LumaDataSize, ChromaUDataSize,
                   varsBits, varsClamp, varsAC, varsPic, varsScratch, varsFH>>

\* One channel: the slice expression pixelData[:n] (a run-time panic when n is
\* more than the capacity of pixelData, which make and the reslices of lines 327
\* and 341 keep equal to its length), decodeChannel, the error return, and the
\* reslice pixelData[n:].
Channel(n, what, nextPc) ==
    IF n > pixelLen
    THEN Panic("slice bounds out of range") /\ UNCHANGED pixelLen
    ELSE \E outcome \in ChannelOutcomes(n) :
            IF outcome = "panic"
            THEN Panic("index out of range") /\ UNCHANGED pixelLen
            ELSE IF outcome = "error"
            THEN ReturnError(what) /\ UNCHANGED pixelLen
            ELSE /\ pixelLen' = pixelLen - n
                 /\ slicePc' = nextPc
                 /\ UNCHANGED sliceErr

\* Lines 323-327
LumaChannel ==
    /\ slicePc = "luma"
    /\ Channel(LumaDataSize, "unable to decode luma channel", "cb")
    /\ UNCHANGED <<sliceSize, sliceHave, hdrSizeByte, LumaDataSize, ChromaUDataSize,
                   varsBits, varsClamp, varsAC, varsPic, varsScratch, varsFH>>

\* Lines 329-341
ChromaUChannel ==
    /\ slicePc = "cb"
    /\ Channel(ChromaUDataSize, "unable to decode chroma u channel", "cr")
    /\ UNCHANGED <<sliceSize, sliceHave, hdrSizeByte, LumaDataSize, ChromaUDataSize,
                   varsBits, varsClamp, varsAC, varsPic, varsScratch, varsFH>>

\* Lines 343-348: the last channel is given what is left of pixelData
ChromaVChannel ==
    /\ slicePc = "cr"
    /\ Channel(pixelLen, "unable to decode chroma v channel", "returned")
    /\ UNCHANGED <<sliceSize, sliceHave, hdrSizeByte, LumaDataSize, ChromaUDataSize,
                   varsBits, varsClamp, varsAC, varsPic, varsScratch, varsFH>>

NextSlice == SliceEnter \/ LumaChannel \/ ChromaUChannel \/ ChromaVChannel

SpecSlice == SliceInit /\ [][NextSlice]_vars

\* the slice header was decoded and pixelData read, and the luma and Cb lengths
\* together exceed the bytes after the slice header
ShortPayload ==
    /\ SliceHeaderDecode(sliceSize, sliceHave, hdrSizeByte) = "nil"
    /\ sliceHave >= sliceSize
    /\ LumaDataSize + ChromaUDataSize > sliceSize - SliceHeaderSize(hdrSizeByte)

\* C11: when the slice header's luma length plus Cb length exceeds the bytes
\* after the slice header, DecodeSlice returns an error value: it does not end in
\* the run-time panic of a slice expression past the payload, and it does not
\* return nil.
C11_ShortPayloadError ==
    (ShortPayload /\ slicePc \in {"returned", "panic"}) =>
        /\ ~(slicePc = "panic" /\ sliceErr = "slice bounds out of range")
        /\ slicePc = "returned" => sliceErr # "nil"

----------------------------------------------------------------------------
(* SliceDecoder.decodeChannel (slice decoder, lines 234-283) called again and *)
(* again on one SliceDecoder: the coefficient buffer comes from the           *)
(* decoder's sync.Pool and goes back to it when the call returns.             *)

\* MaxBlocksPerSlice = MaxMacroblocksPerSlice * BlocksPerMacroblock
MaxBlocksPerSlice == 8 * 4

\* blocksPerSlice, lines 235-238
BlocksPerSlice(dx, sub) ==
    IF sub THEN ((4 * dx) \div MacroblockWidth) \div 2 ELSE (4 * dx) \div MacroblockWidth

\* a buffer whose every cell is left as it was
Unzeroed(b, n) == b

\* the loop of lines 248-251 over coefficients[:blocksPerSlice]: the blocks of
\* buffer b that may still hold other values than zero after it
Zeroed(b, n) == {blk \in b : blk >= n}

\* the blocks decodeCoefficients wrote into
Written(c) == {cell[1] : cell \in DOMAIN c}

\* d.coefficientBuffers after Put(b): sync.Pool keeps what it likes of the
\* buffers put into it, here at most MaxPooled of them
Put(held, b) == {kept \in SUBSET (held \cup {b}) : Cardinality(kept) <= MaxPooled}

\* the blocks of the buffer handed to decodeBlock, lines 257-281: two for each
\* macroblock of a subsampled chroma channel, four otherwise
PipedBlocks(dx, sub, chroma) ==
    IF chroma /\ sub THEN 0..(2 * (dx \div MacroblockWidth) - 1)
    ELSE 0..(4 * (dx \div MacroblockWidth) - 1)

\* rect.Dx(): an empty rectangle, one and two macroblocks, and sixteen
ChannelWidths == {0, 16, 32, 256}

\* isSubsampled and isChroma as DecodeSlice passes them, and for 4:4:4 chroma
ChannelKinds == {<<FALSE, FALSE>>, <<FALSE, TRUE>>, <<TRUE, TRUE>>}

\* the bytes that occur in the channel data tried
ChannelByteValues == {130, 136, 255}

ChannelData == UNION {[1..n -> ChannelByteValues] : n \in 0..MaxChannelBytes}

InitScratch ==
    /\ pool = {} /\ buffer = {} /\ rectDx = 0
    /\ isSubsampled = FALSE /\ isChroma = FALSE
    /\ chPc = "idle" /\ chErr = "nil"

ScratchInit ==
    InitScratch /\ ParkedBits /\ ParkedClamp /\ ParkedAC /\ ParkedPic
    /\ ParkedSlice /\ ParkedFH

\* Lines 235-251 for one call: blocksPerSlice and its limit, the buffer from the
\* pool (one that was put back, or a new one when sync.Pool has none to give),
\* the zeroing of its first blocksPerSlice blocks, and the Bitstream that
\* decodeCoefficients makes of data.
ChannelBegin ==
    /\ chPc = "idle"
    /\ \E dx \in ChannelWidths, kind \in ChannelKinds :
          /\ IF BlocksPerSlice(dx, kind[1]) > MaxBlocksPerSlice
             THEN /\ chErr' = "unsupported slice size"
                  /\ UNCHANGED <<rectDx, isSubsampled, isChroma, chPc, pool, buffer,
                                 varsAC, Bytes, Offset>>
             ELSE /\ rectDx' = dx /\ isSubsampled' = kind[1] /\ isChroma' = kind[2]
                  /\ \E b \in pool \cup {{}} :
                        /\ pool' = pool \ {b}
                        /\ buffer' = Zeroed(b, BlocksPerSlice(dx, kind[1]))
                  /\ chPc' = "decode" /\ chErr' = "nil"
                  /\ Bytes' \in ChannelData
                  /\ Offset' = 0
                  /\ numberOfBlocks' = BlocksPerSlice(dx, kind[1])
                  /\ scanOrder' \in {"progressive", "interlaced"}
                  /\ run' = 0 /\ level' = 0 /\ pos' = 0
                  /\ coeffs' = NoCoeffs /\ scanIdx' = -1 /\ acPc' = "dc"
    /\ UNCHANGED <<last, written, rt, calls, varsClamp, varsPic, varsSlice, varsFH>>

\* Lines 253-283 and the deferred Put: decodeCoefficients has returned; on nil the
\* blocks go to decodeBlock; the buffer goes back to the pool with what this
\* call wrote into it.
ChannelEnd ==
    /\ chPc = "decode"
    /\ acPc \in {"done", "error"}
    /\ chErr' = IF acPc = "error" THEN "unable to decode coefficients" ELSE "nil"
    /\ pool' \in Put(pool, buffer \cup Written(coeffs))
    /\ buffer' = {}
    /\ chPc' = "idle"
    /\ rectDx' = 0 /\ isSubsampled' = FALSE /\ isChroma' = FALSE
    /\ Bytes' = <<>> /\ Offset' = 0
    /\ numberOfBlocks' = 0 /\ scanOrder' = "progressive"
    /\ run' = 0 /\ level' = 0 /\ pos' = 0
    /\ coeffs' = <<>> /\ scanIdx' = 0 /\ acPc' = "parked"
    /\ UNCHANGED <<last, written, rt, calls, varsClamp, varsPic, varsSlice, varsFH>>

NextScratch ==
    ChannelBegin \/ DecodeDC \/ ACEnter \/ ACIterate \/ ACReturn \/ ChannelEnd

SpecScratch == ScratchInit /\ [][NextScratch]_vars

\* C12: whatever channels one SliceDecoder decoded before, with buffers taken
\* from its pool, when the coefficient decoding of a channel starts every
\* coefficient of the first blocksPerSlice blocks of the buffer is zero, and when
\* it has returned nil every block handed to decodeBlock holds only what was
\* written while decoding this channel: none of those blocks is left over from
\* an earlier slice or channel, one that ended with an error included.
C12_ScratchZeroed ==
    chPc = "decode" =>
       /\ numberOfBlocks = BlocksPerSlice(rectDx, isSubsampled)
       /\ acPc = "dc" => \A blk \in buffer : blk >= numberOfBlocks
       /\ acPc = "done" =>
             buffer \cap PipedBlocks(rectDx, isSubsampled, isChroma) = {}

\* a channel decoded into a buffer that came back from the pool with blocks left
\* over beyond its own, wrote AC coefficients, and is about to hand its
\* blocks to decodeBlock
C12_Witness ==
    /\ chPc = "decode" /\ acPc = "done"
    /\ buffer # {}
    /\ PipedBlocks(rectDx, isSubsampled, isChroma) # {}
    /\ \E c \in DOMAIN coeffs : c[2] # 0

----------------------------------------------------------------------------
(* FrameHeader.Decode (frame decoder, lines 84-132) on a stream of streamLen  *)
(* bytes whose first two bytes declare a header of hdrSize bytes.             *)

\* FrameQuantizationMatrixFlags: CustomLumaQuantizationMatrixPresent is bit 1,
\* CustomChromaQuantizationMatrixPresent bit 0
CustomLumaQuantizationMatrixPresent(f) == (f \div 2) % 2 = 1
CustomChromaQuantizationMatrixPresent(f) == f % 2 = 1

\* customMatrixOffset when the chroma matrix is read, lines 113-121
ChromaMatrixOffset(f) == IF CustomLumaQuantizationMatrixPresent(f) THEN 20 + 64 ELSE 20

\* an error return, and a run-time panic on buf[top] (index out of range)
HeaderError(e) == [err |-> e, panic |-> FALSE, luma |-> FALSE, chroma |-> FALSE, top |-> 0]
HeaderPanic(top) == [err |-> "nil", panic |-> TRUE, luma |-> FALSE, chroma |-> FALSE,
                     top |-> top]

\* Lines 113-131 on a buffer of size bytes: the matrix loops index buf[20..83]
\* and buf[customMatrixOffset .. customMatrixOffset+63] one byte at a time; top
\* is the highest index of buf the call used
ReadMatrices(size, f) ==
    IF CustomLumaQuantizationMatrixPresent(f) /\ size < 20 + 64
    THEN HeaderPanic(Max(size, 20))
    ELSE IF CustomChromaQuantizationMatrixPresent(f) /\ size < ChromaMatrixOffset(f) + 64
    THEN HeaderPanic(Max(size, ChromaMatrixOffset(f)))
    ELSE [err |-> "nil", panic |-> FALSE,
          luma |-> CustomLumaQuantizationMatrixPresent(f),
          chroma |-> CustomChromaQuantizationMatrixPresent(f),
          top |-> IF CustomChromaQuantizationMatrixPresent(f)
                  THEN ChromaMatrixOffset(f) + 63
                  ELSE IF CustomLumaQuantizationMatrixPresent(f) THEN 83 ELSE 19]

\* FrameHeader.Decode: ReadAt returns an error when the stream cannot fill the
\* buffer it is given
FrameHeaderDecode(size, have, f) ==
    IF have < 2 THEN HeaderError("EOF")
    ELSE IF size < 28 THEN HeaderError("header size must be at least 28")
    ELSE IF size > 1024 THEN HeaderError("header size must be less than or equal to 1024")
    ELSE IF have < size THEN HeaderError("EOF")
    ELSE ReadMatrices(size, f)

\* declared header sizes: around the limits 28 and 1024 and around the sizes
\* that hold one and two matrices
FrameHeaderSizes == {0, 27, 28, 29, 83, 84, 85, 147, 148, 149, 1024, 1025}

InitFH ==
    /\ hdrSize \in FrameHeaderSizes
    /\ streamLen \in {0, 1, 2, Max(hdrSize - 1, 0), hdrSize, hdrSize + 1}
    /\ matrixFlags \in 0..7
    /\ fhPc = "call" /\ fhOut = NoHeader

FHInit ==
    InitFH /\ ParkedBits /\ ParkedClamp /\ ParkedAC /\ ParkedPic
    /\ ParkedSlice /\ ParkedScratch

DecodeFrameHeader ==
    /\ fhPc = "call"
    /\ fhOut' = FrameHeaderDecode(hdrSize, streamLen, matrixFlags)
    /\ fhPc' = IF FrameHeaderDecode(hdrSize, streamLen, matrixFlags).panic
               THEN "panic" ELSE "returned"
    /\ UNCHANGED <<hdrSize, streamLen, matrixFlags, varsBits, varsClamp, varsAC,
                   varsPic, varsSlice, varsScratch>>

NextFH == DecodeFrameHeader

SpecFH == FHInit /\ [][NextFH]_vars

\* the bytes the flagged matrices need, from byte 20 on
MatricesEnd(f) ==
    20 + (IF CustomLumaQuantizationMatrixPresent(f) THEN 64 ELSE 0)
       + (IF CustomChromaQuantizationMatrixPresent(f) THEN 64 ELSE 0)

\* C13: for every declared header size in 28..1024 that the stream holds and
\* every combination of the two matrix-present flags, FrameHeader.Decode returns:
\* the parsed header, or an error value when the declared size is too small for
\* the flagged 64-byte matrices from byte 20 on; it never indexes beyond the
\* header buffer.
C13_HeaderInBounds ==
    (fhPc # "call" /\ hdrSize \in 28..1024 /\ streamLen >= hdrSize) =>
        /\ fhPc = "returned"
        /\ fhOut.top < hdrSize
        /\ hdrSize < MatricesEnd(matrixFlags) => fhOut.err # "nil"

====
